---- MODULE Spec2Model ----
(***************************************************************************)
(* A model of the best-route trader's refresh engine: the token resolver   *)
(* (config.py), the directional provider client (bitquery_client.py), the  *)
(* slippage payload transformation (calculation.py), the DataService       *)
(* (data_service.py) with its background loop, and the request handlers    *)
(* (app.py) and the monitor (main.py) that drive it.                       *)
(*                                                                         *)
(* Python strings that the code inspects character by character (token     *)
(* identifiers, symbols, addresses) are sequences of one-character         *)
(* strings; None and '' are both the empty sequence, as every test the     *)
(* code makes on them is a truthiness test.                                *)
(***************************************************************************)
EXTENDS Integers, Sequences, FiniteSets, TLC

VARIABLES
    pools,                 \* provider: DEXPoolSlippages rows, newest first
    pending,               \* provider: mempool DEXTradeByTokens rows, newest first
    providerDown,          \* provider: TRUE when every call fails
    fn_pc, fn_args, fn_data, fn_ret,   \* one call of a client function: position, arguments, intermediate, result
    fn_calls,              \* the provider queries that call has sent, in order, with their answers
    running,               \* DataService._running
    thread,                \* DataService._thread (0 is None)
    slippage_data,         \* DataService.slippage_data
    mempool_data,          \* DataService.mempool_data
    last_slippage_update,  \* DataService.last_slippage_update (0 is None)
    last_mempool_update,   \* DataService.last_mempool_update (0 is None)
    slippage_cycle,        \* history: the cycle whose fetch assigned slippage_data
    mempool_cycle,         \* history: the cycle whose fetch assigned mempool_data
    cycles,                \* history: number of fetch cycles begun so far
    requested,             \* history: the pair of the last on-demand fetch that published
    loops,                 \* the threads running _refresh_loop
    handlers,              \* the request handlers of app.py
    ctl                    \* the thread that calls start() and stop(): where it is, and
                           \* the loops that were asleep, and those inside a
                           \* cycle, when its last stop() began

vars == <<pools, pending, providerDown, fn_pc, fn_args, fn_data, fn_ret, fn_calls,
          running, thread, slippage_data, mempool_data,
          last_slippage_update, last_mempool_update,
          slippage_cycle, mempool_cycle, cycles, requested,
          loops, handlers, ctl>>

providerVars == <<pools, pending, providerDown>>
fnVars == <<fn_pc, fn_args, fn_data, fn_ret, fn_calls>>
serviceVars == <<running, thread, slippage_data, mempool_data,
                 last_slippage_update, last_mempool_update,
                 slippage_cycle, mempool_cycle, cycles, requested,
                 loops, handlers, ctl>>

----------------------------------------------------------------------------
(* Strings *)

UpperChars == <<"A","B","C","D","E","F","G","H","I","J","K","L","M","N","O","P","Q","R","S","T","U","V","W","X","Y","Z">>
LowerChars == <<"a","b","c","d","e","f","g","h","i","j","k","l","m","n","o","p","q","r","s","t","u","v","w","x","y","z">>
HexChars == {"0","1","2","3","4","5","6","7","8","9",
             "a","b","c","d","e","f","A","B","C","D","E","F"}

None == <<>>

LowerChar(c) ==
    IF \E i \in 1..Len(UpperChars) : UpperChars[i] = c
    THEN LowerChars[CHOOSE i \in 1..Len(UpperChars) : UpperChars[i] = c]
    ELSE c

UpperChar(c) ==
    IF \E i \in 1..Len(LowerChars) : LowerChars[i] = c
    THEN UpperChars[CHOOSE i \in 1..Len(LowerChars) : LowerChars[i] = c]
    ELSE c

\* str.lower() left out: the string as it came
SameCase(s) == s

\* str.lower(), str.upper()
lower(s) == [i \in 1..Len(s) |-> LowerChar(s[i])]
upper(s) == [i \in 1..Len(s) |-> UpperChar(s[i])]

\* str.strip(): leading and trailing blanks removed
RECURSIVE lstrip(_)
lstrip(s) == IF s # <<>> /\ Head(s) = " " THEN lstrip(Tail(s)) ELSE s
RECURSIVE rstrip(_)
rstrip(s) == IF s # <<>> /\ s[Len(s)] = " " THEN rstrip(SubSeq(s, 1, Len(s) - 1)) ELSE s
strip(s) == rstrip(lstrip(s))

\* str.startswith(p)
startswith(s, p) == Len(s) >= Len(p) /\ SubSeq(s, 1, Len(p)) = p

----------------------------------------------------------------------------
(* config.py *)

SLIPPAGE_QUERY_LIMIT == 50
MEMPOOL_QUERY_LIMIT == 20
MEMPOOL_DISPLAY_LIMIT == 15
PrefixedAddressLen == 42
BareAddressLen == 40

USDC == <<"U","S","D","C">>
USDT == <<"U","S","D","T">>
DAI == <<"D","A","I">>
WETH == <<"W","E","T","H">>
ETH == <<"E","T","H">>
WBTC == <<"W","B","T","C">>

USDC_ADDRESS == <<"0","x","a","0","b","8","6","9","9","1","c","6","2","1","8","b","3","6","c","1","d","1","9","d","4","a","2","e","9","e","b","0","c","e","3","6","0","6","e","b","4","8">>
USDT_ADDRESS == <<"0","x","d","a","c","1","7","f","9","5","8","d","2","e","e","5","2","3","a","2","2","0","6","2","0","6","9","9","4","5","9","7","c","1","3","d","8","3","1","e","c","7">>
DAI_ADDRESS == <<"0","x","6","b","1","7","5","4","7","4","e","8","9","0","9","4","c","4","4","d","a","9","8","b","9","5","4","e","e","d","e","a","c","4","9","5","2","7","1","d","0","f">>
WETH_ADDRESS == <<"0","x","c","0","2","a","a","a","3","9","b","2","2","3","f","e","8","d","0","a","0","e","5","c","4","f","2","7","e","a","d","9","0","8","3","c","7","5","6","c","c","2">>
WBTC_ADDRESS == <<"0","x","2","2","6","0","f","a","c","5","e","5","5","4","2","a","7","7","3","a","a","4","4","f","b","c","f","e","d","f","7","c","1","9","3","b","c","2","c","5","9","9">>

TOKEN_ADDRESSES ==
    (USDC :> USDC_ADDRESS) @@ (USDT :> USDT_ADDRESS) @@ (DAI :> DAI_ADDRESS) @@
    (WETH :> WETH_ADDRESS) @@ (ETH :> WETH_ADDRESS) @@ (WBTC :> WBTC_ADDRESS)

\* token_to_address(symbol_or_address): the normalized address, or None
token_to_address(symbol_or_address) ==
    IF symbol_or_address = None THEN None
    ELSE LET s == strip(symbol_or_address) IN
         IF startswith(s, <<"0","x">>) /\ Len(s) = PrefixedAddressLen THEN lower(s)
         ELSE IF Len(s) = BareAddressLen /\ \A i \in 1..Len(s) : s[i] \in HexChars
              THEN <<"0","x">> \o lower(s)
         ELSE IF upper(s) \in DOMAIN TOKEN_ADDRESSES THEN TOKEN_ADDRESSES[upper(s)]
         ELSE None

----------------------------------------------------------------------------
(* bitquery_client.py: the provider and the client *)

\* int(x) of a provider field raises on this value
BadNumber == -1

\* JSON null as a row's SlippageBasisPoints: price.get('SlippageBasisPoints', 0)
\* is then None, a value that no comparison with a number accepts
NullTier == -2

\* BitqueryClient._normalize_token_address
normalize_token_address(address) ==
    LET s == lower(strip(address)) IN
    IF startswith(s, <<"0","x">>) THEN s ELSE <<"0","x">> \o s

\* list[:n]
Take(seq, n) == SubSeq(seq, 1, IF Len(seq) < n THEN Len(seq) ELSE n)

\* The provider's answer to DEX_POOL_SLIPPAGES_BY_TOKENS_QUERY: the rows whose
\* pool has CurrencyA = tokenA and CurrencyB = tokenB, at most `limit` of them.
QuerySlippages(rows, limit, tokenA, tokenB) ==
    Take(SelectSeq(rows, LAMBDA r : r.AddressA = tokenA /\ r.AddressB = tokenB), limit)

\* One row of _transform_slippage_data: the PoolSlippageData built from it
PoolSlippageData(item) ==
    [block_number |-> item.Number,
     protocol |-> item.Protocol,
     protocol_version |-> item.Version,
     token_a |-> item.SymbolA,
     token_b |-> item.SymbolB,
     slippage_bps |-> item.Bps,
     price_atob |-> item.AtoBPrice,
     price_btoa |-> item.BtoAPrice,
     max_amount_in_atob |-> item.AtoBMax,
     max_amount_in_btoa |-> item.BtoAMax]

\* BitqueryClient._transform_slippage_data: a row whose block number int()
\* cannot parse is skipped, the others are kept in order
RECURSIVE transform_slippage_data(_)
transform_slippage_data(raw_data) ==
    IF raw_data = <<>> THEN <<>>
    ELSE IF Head(raw_data).Number = BadNumber
         THEN transform_slippage_data(Tail(raw_data))
         ELSE <<PoolSlippageData(Head(raw_data))>> \o transform_slippage_data(Tail(raw_data))

\* Which orientation BitqueryClient.fetch_dex_pool_slippages answers from
SlippageRowsAB(rows, limit, ta, tb) == QuerySlippages(rows, limit, ta, tb)
SlippageRowsBA(rows, limit, ta, tb) == QuerySlippages(rows, limit, tb, ta)

\* BitqueryClient.fetch_dex_pool_slippages, when no provider call fails
fetch_dex_pool_slippages(rows, limit, token_a_address, token_b_address) ==
    IF token_a_address = None \/ token_b_address = None THEN <<>>
    ELSE LET ta == normalize_token_address(token_a_address)
             tb == normalize_token_address(token_b_address)
             slippages_ab == SlippageRowsAB(rows, limit, ta, tb)
             slippages_ba == SlippageRowsBA(rows, limit, ta, tb)
         IN  IF slippages_ab # <<>>
             THEN transform_slippage_data(Take(slippages_ab, limit))
             ELSE transform_slippage_data(Take(slippages_ba, limit))

\* The number of provider queries that call makes
SlippageQueries(rows, limit, token_a_address, token_b_address) ==
    IF token_a_address = None \/ token_b_address = None THEN 0
    ELSE IF SlippageRowsAB(rows, limit, normalize_token_address(token_a_address),
                           normalize_token_address(token_b_address)) # <<>>
         THEN 1 ELSE 2

\* A raw trade's Transaction.Hash: None, or a string
HashNone == "None"

\* Python truthiness of a raw hash: None and '' are false
HashTruthy(tx_hash) == tx_hash \notin {HashNone, ""}

\* safe_str inside _transform_mempool_trades
safe_str(val) == IF val = HashNone THEN "" ELSE val

\* The provider's answer to MEMPOOL_DEX_TRADES_BY_TOKENS_QUERY: the pending
\* trades with Trade.Currency = tokenA and Trade.Side.Currency = tokenB, at
\* most `limit` of them.
QueryMempool(rows, limit, tokenA, tokenB) ==
    Take(SelectSeq(rows, LAMBDA r : r.Currency = tokenA /\ r.Side = tokenB), limit)

\* dict.get(field, default) on a raw row: the default when the key is absent
Get(item, field, default) == IF field \in DOMAIN item THEN item[field] ELSE default

\* safe_str(val, default) inside _transform_mempool_trades
safe_str_or(val, default) == IF val = HashNone THEN default ELSE val

\* safe_float inside _transform_mempool_trades: None and a value float() does
\* not accept give the default 0.0
safe_float(val) == IF val \in {NullTier, BadNumber} THEN 0 ELSE val

\* The clock's reading that a row without Block.Time takes as its block time
ClockReading == 0

\* `trade.get('Success', True) or True` with the `or True` dropped
KeepSuccess(val) == val

\* `val or True`: Python's `or` gives its left operand when that is truthy and
\* True otherwise (JSON true, false and null are written "true", "false", "null")
OrTrue(val) == IF val \in {"false", "null"} THEN "true" ELSE val

\* One row of _transform_mempool_trades: the MempoolTradeData built from it
MempoolTradeData(item) ==
    [tx_hash |-> safe_str(item.Hash),
     block_number |-> item.Number,
     block_time |-> IF Get(item, "Time", NullTier) = NullTier THEN ClockReading
                    ELSE item.Time,
     protocol |-> safe_str_or(Get(item, "ProtocolName", HashNone), "Unknown"),
     trade_token |-> item.Currency,
     side_token |-> item.Side,
     trade_amount_usd |-> safe_float(Get(item, "AmountInUSD", NullTier)),
     success |-> OrTrue(Get(item, "Success", "true"))]

\* A row the constructor call raises on: int() does not parse its block number
\* or datetime.fromisoformat() its block time
RowRaises(item) == item.Number = BadNumber \/ Get(item, "Time", NullTier) = BadNumber

\* BitqueryClient._transform_mempool_trades: a row that raises is skipped, the
\* others are kept in order
RECURSIVE transform_mempool_trades(_)
transform_mempool_trades(raw_data) ==
    IF raw_data = <<>> THEN <<>>
    ELSE IF RowRaises(Head(raw_data))
         THEN transform_mempool_trades(Tail(raw_data))
         ELSE <<MempoolTradeData(Head(raw_data))>> \o transform_mempool_trades(Tail(raw_data))

\* max(limit // 2, 5)
MinPerLimit == 5
\* limit // 2 without the minimum
HalfLimit(limit) == limit \div 2
PerLimit(limit) == IF limit \div 2 > MinPerLimit THEN limit \div 2 ELSE MinPerLimit

\* The seen_hashes loop with the membership test dropped: every row is kept
MergeKeepingAll(items, seen_hashes) == items

\* The seen_hashes loop with the two `if tx_hash` tests dropped: rows without
\* a hash are deduplicated like the others
RECURSIVE MergeOnAnyHash(_, _)
MergeOnAnyHash(items, seen_hashes) ==
    IF items = <<>> THEN <<>>
    ELSE IF Head(items).Hash \in seen_hashes
         THEN MergeOnAnyHash(Tail(items), seen_hashes)
         ELSE <<Head(items)>> \o MergeOnAnyHash(Tail(items), seen_hashes \cup {Head(items).Hash})

\* The seen_hashes loop of fetch_mempool_trades over the rest of the rows
RECURSIVE MergeFrom(_, _)
MergeFrom(items, seen_hashes) ==
    IF items = <<>> THEN <<>>
    ELSE LET tx_hash == Head(items).Hash IN
         IF HashTruthy(tx_hash) /\ tx_hash \in seen_hashes
         THEN MergeFrom(Tail(items), seen_hashes)
         ELSE <<Head(items)>> \o
              MergeFrom(Tail(items),
                        IF HashTruthy(tx_hash) THEN seen_hashes \cup {tx_hash}
                                               ELSE seen_hashes)

\* trades_ab + trades_ba as fetch_mempool_trades concatenates them
MempoolBatches(rows, limit, ta, tb) ==
    QueryMempool(rows, PerLimit(limit), ta, tb) \o QueryMempool(rows, PerLimit(limit), tb, ta)

\* BitqueryClient.fetch_mempool_trades, when no provider call fails
fetch_mempool_trades(rows, limit, token_a_address, token_b_address) ==
    IF token_a_address = None \/ token_b_address = None THEN <<>>
    ELSE LET ta == normalize_token_address(token_a_address)
             tb == normalize_token_address(token_b_address)
             merged == MergeFrom(MempoolBatches(rows, limit, ta, tb), {})
         IN  transform_mempool_trades(Take(merged, limit))

----------------------------------------------------------------------------
(* calculation.py *)

\* _is_pool_reversed: the comparison is between the pool's symbols as the
\* provider spells them and the request's identifiers as the caller typed them
is_pool_reversed(token_a_symbol, token_b_symbol, request_token_a, request_token_b) ==
    IF request_token_a = None \/ request_token_b = None THEN FALSE
    ELSE token_a_symbol = request_token_b /\ token_b_symbol = request_token_a

\* sorted(slippage_data, key=lambda x: x.slippage_bps): a stable sort
RECURSIVE InsertByBps(_, _)
InsertByBps(sorted, s) ==
    IF sorted = <<>> THEN <<s>>
    ELSE IF Head(sorted).slippage_bps <= s.slippage_bps
         THEN <<Head(sorted)>> \o InsertByBps(Tail(sorted), s)
         ELSE <<s>> \o sorted

RECURSIVE SortedByBps(_)
SortedByBps(points) ==
    IF points = <<>> THEN <<>>
    ELSE InsertByBps(SortedByBps(SubSeq(points, 1, Len(points) - 1)),
                     points[Len(points)])

\* The points the seen_bps loop lets through, keeping the last of each tier
RECURSIVE DedupByBpsKeepLast(_)
DedupByBpsKeepLast(points) ==
    IF points = <<>> THEN <<>>
    ELSE IF \E i \in 2..Len(points) : points[i].slippage_bps = Head(points).slippage_bps
         THEN DedupByBpsKeepLast(Tail(points))
         ELSE <<Head(points)>> \o DedupByBpsKeepLast(Tail(points))

\* The points the seen_bps loop lets through: the first of each tier
RECURSIVE DedupFrom(_, _)
DedupFrom(points, seen_bps) ==
    IF points = <<>> THEN <<>>
    ELSE IF Head(points).slippage_bps \in seen_bps
         THEN DedupFrom(Tail(points), seen_bps)
         ELSE <<Head(points)>> \o
              DedupFrom(Tail(points), seen_bps \cup {Head(points).slippage_bps})

DedupByBps(points) == DedupFrom(points, {})

\* The item built from one kept point
\* f"{s.protocol} v{s.protocol_version}", as the parts it joins
ProtocolLabel(s) == <<s.protocol, " v", s.protocol_version>>

SlippageItem(s, token_a, token_b, include_tokens) ==
    LET pool_reversed == is_pool_reversed(s.token_a, s.token_b, token_a, token_b)
        price_b_per_a == IF pool_reversed
                         THEN (IF s.price_btoa > 0 THEN s.price_btoa ELSE 0)
                         ELSE (IF s.price_atob > 0 THEN s.price_atob ELSE 0)
        max_amount == IF pool_reversed THEN s.max_amount_in_btoa
                                       ELSE s.max_amount_in_atob
    IN  IF include_tokens
        THEN [bps |-> s.slippage_bps, max_amount |-> max_amount,
              price |-> price_b_per_a, price_btoa |-> s.price_btoa,
              protocol |-> ProtocolLabel(s), token_a |-> s.token_a, token_b |-> s.token_b]
        ELSE [bps |-> s.slippage_bps, max_amount |-> max_amount,
              price |-> price_b_per_a, price_btoa |-> s.price_btoa,
              protocol |-> ProtocolLabel(s)]

\* transform_slippage_for_api
transform_slippage_for_api(points, token_a, token_b, include_tokens) ==
    LET kept == DedupByBps(SortedByBps(points))
    IN  [i \in 1..Len(kept) |-> SlippageItem(kept[i], token_a, token_b, include_tokens)]

----------------------------------------------------------------------------
(* data_service.py: DataService, its background loop and its callers *)

\* Bounds of the model
MaxLoops == 2          \* Thread objects start() can have alive at once
MaxCycles == 2         \* fetch cycles (scheduled and on-demand) in one run

LoopIds == 1..MaxLoops
HandlerIds == {1}

\* threading.Thread.join(timeout=5) in stop(); 0 stands for no timeout
JOIN_TIMEOUT == 5
NoTimeout == 0

NoPair == <<None, None>>

\* The identifiers the on-demand callers pass: none (main.py), or a pair
Requests == {NoPair, <<WETH, USDC>>}

\* The provider's tables while the service runs
ServicePools ==
    <<[Number |-> 100, Protocol |-> "uniswap_v3", Version |-> "3", SymbolA |-> USDC, SymbolB |-> WETH,
       AddressA |-> USDC_ADDRESS, AddressB |-> WETH_ADDRESS, Bps |-> 25,
       AtoBPrice |-> 2, BtoAPrice |-> 3, AtoBMax |-> 100, BtoAMax |-> 150]>>
ServicePending ==
    <<[Hash |-> "0xabc", Number |-> 100, Currency |-> WETH_ADDRESS, Side |-> USDC_ADDRESS]>>

\* A loop thread that has not been created, has returned, or died of an exception
DeadPcs == {"unborn", "exited", "crashed"}
\* threading.Thread.is_alive()
IsAlive(t) == loops[t].pc \notin DeadPcs

\* A thread of _refresh_loop: its position, the cycle it runs (0: none), the
\* sleeps it has completed, the invocations of the error callback its cycles
\* have made, how its last cycle ended, and the pair the last on-demand fetch
\* had published for when the cycle began
LoopUnborn == [pc |-> "unborn", cycle |-> 0, slept |-> 0, errors |-> 0,
               outcome |-> "none", wanted |-> NoPair]

\* DataService.__init__ and the threads around it
ServiceInit ==
    /\ running = FALSE
    /\ thread = 0
    /\ slippage_data = <<>>
    /\ mempool_data = <<>>
    /\ last_slippage_update = 0
    /\ last_mempool_update = 0
    /\ slippage_cycle = 0
    /\ mempool_cycle = 0
    /\ cycles = 0
    /\ requested = NoPair
    /\ loops = [t \in LoopIds |-> LoopUnborn]
    /\ handlers = [h \in HandlerIds |->
                     [pc |-> "idle", token_a |-> None, token_b |-> None, cycle |-> 0,
                      seen_slippage |-> 0, seen_mempool |-> 0,
                      slippage |-> <<>>, mempool |-> <<>>, status |-> 0]]
    /\ ctl = [pc |-> "idle", asleep |-> {}, inflight |-> {}]

\* fetch_slippage_data / fetch_mempool_data: addr_x = token_to_address(x) if x else None
Resolve(token) == IF token = None THEN None ELSE token_to_address(token)

\* Whether the fetch reaches the provider at all
CallsProvider(token_a, token_b) == Resolve(token_a) # None /\ Resolve(token_b) # None

\* A provider call of this fetch may raise: always when the provider is down
MayFail(token_a, token_b) == CallsProvider(token_a, token_b)
MustFail(token_a, token_b) == CallsProvider(token_a, token_b) /\ providerDown

\* How one fetch_slippage_data or fetch_mempool_data call can end: it returns,
\* its update callback raises after the assignment, or a provider call raises
FetchEnds(token_a, token_b) ==
    IF MustFail(token_a, token_b) THEN {"provider_failed"}
    ELSE IF MayFail(token_a, token_b) THEN {"returned", "callback_raised", "provider_failed"}
    ELSE {"returned", "callback_raised"}

\* fetch_slippage_data taking its timestamp into both update fields
FetchSlippageStampingBoth(end, cycle, token_a, token_b) ==
    /\ IF end = "provider_failed"
       THEN UNCHANGED <<slippage_data, last_slippage_update, slippage_cycle,
                        last_mempool_update>>
       ELSE /\ slippage_data' = fetch_dex_pool_slippages(pools, SLIPPAGE_QUERY_LIMIT,
                                                         Resolve(token_a), Resolve(token_b))
            /\ last_slippage_update' = cycle
            /\ last_mempool_update' = cycle
            /\ slippage_cycle' = cycle
    /\ UNCHANGED <<mempool_data, mempool_cycle>>

\* fetch_slippage_data, ending as `end`: unless the provider call raised, the
\* fetched list and its timestamp are assigned before the callback runs (a
\* timestamp is represented by the id of the cycle that took it)
FetchSlippageData(end, cycle, token_a, token_b) ==
    /\ IF end = "provider_failed"
       THEN UNCHANGED <<slippage_data, last_slippage_update, slippage_cycle>>
       ELSE /\ slippage_data' = fetch_dex_pool_slippages(pools, SLIPPAGE_QUERY_LIMIT,
                                                         Resolve(token_a), Resolve(token_b))
            /\ last_slippage_update' = cycle
            /\ slippage_cycle' = cycle
    /\ UNCHANGED <<mempool_data, last_mempool_update, mempool_cycle>>

\* fetch_mempool_data, ending as `end`
FetchMempoolData(end, cycle, token_a, token_b) ==
    /\ IF end = "provider_failed"
       THEN UNCHANGED <<mempool_data, last_mempool_update, mempool_cycle>>
       ELSE /\ mempool_data' = fetch_mempool_trades(pending, MEMPOOL_QUERY_LIMIT,
                                                    Resolve(token_a), Resolve(token_b))
            /\ last_mempool_update' = cycle
            /\ mempool_cycle' = cycle
    /\ UNCHANGED <<slippage_data, last_slippage_update, slippage_cycle>>

\* The error callback's invocations when a fetch of the loop's fetch_all()
\* raises: one in the except block of fetch_slippage_data or fetch_mempool_data,
\* one in the except block of _refresh_loop
ErrorCallsPerFailedCycle == 2

\* Where a loop thread waits on the clock: time.sleep(self.refresh_interval).
\* Everywhere else it is runnable (its fetch_all() has no tokens and reaches no
\* provider call), and it moves on before any timeout elapses.
WaitingPcs == {"sleep"}

\* Where a loop thread is inside its fetch_all(): a refresh cycle in flight
CyclePcs == {"slippage", "mempool"}

\* Thread.join without its timeout: it returns only once the thread has ended
JoinReturnsWhenEnded(t, timeout) == ~IsAlive(t)

\* Thread.join(timeout): it returns once the thread has ended, or, with a
\* timeout, once the timeout has elapsed while the thread waits
JoinReturns(t, timeout) ==
    ~IsAlive(t) \/ (timeout # NoTimeout /\ loops[t].pc \in WaitingPcs)

\* start(), not running: the flag is set and a new thread runs _refresh_loop
Start ==
    /\ ctl.pc = "idle"
    /\ ~running
    /\ \E t \in LoopIds :
         /\ ~IsAlive(t)
         /\ \A u \in LoopIds : ~IsAlive(u) => t <= u
         /\ running' = TRUE
         /\ thread' = t
         /\ loops' = [loops EXCEPT ![t] = [LoopUnborn EXCEPT !.pc = "check"]]
    /\ ctl' = [ctl EXCEPT !.asleep = {}, !.inflight = {}]
    /\ UNCHANGED <<providerVars, fnVars, slippage_data, mempool_data,
                   last_slippage_update, last_mempool_update, slippage_cycle,
                   mempool_cycle, cycles, requested, handlers>>

\* start(), already running: returns at once
StartWhileRunning ==
    /\ ctl.pc = "idle"
    /\ running
    /\ UNCHANGED vars

\* stop(), up to the join
StopBegin ==
    /\ ctl.pc = "idle"
    /\ running' = FALSE
    /\ ctl' = [pc |-> IF thread # 0 THEN "join" ELSE "idle",
               asleep |-> {t \in LoopIds : loops[t].pc \in WaitingPcs},
               inflight |-> {t \in LoopIds : loops[t].pc \in CyclePcs}]
    /\ UNCHANGED <<providerVars, fnVars, thread, slippage_data, mempool_data,
                   last_slippage_update, last_mempool_update, slippage_cycle,
                   mempool_cycle, cycles, requested, loops, handlers>>

\* stop(), from the return of join(timeout=5) on
StopJoin ==
    /\ ctl.pc = "join"
    /\ JoinReturns(thread, JOIN_TIMEOUT)
    /\ thread' = 0
    /\ ctl' = [ctl EXCEPT !.pc = "idle"]
    /\ UNCHANGED <<providerVars, fnVars, running, slippage_data, mempool_data,
                   last_slippage_update, last_mempool_update, slippage_cycle,
                   mempool_cycle, cycles, requested, loops, handlers>>

\* `while self._running` with the flag never read
LoopContinuesAlways == TRUE

\* `while self._running`
LoopContinues == running

\* _refresh_loop: the test of `while self._running`, and the call of fetch_all()
LoopCheck(t) ==
    /\ loops[t].pc = "check"
    /\ IF LoopContinues
       THEN /\ cycles < MaxCycles
            /\ cycles' = cycles + 1
            /\ loops' = [loops EXCEPT ![t].pc = "slippage", ![t].cycle = cycles + 1,
                                      ![t].outcome = "none", ![t].wanted = requested]
       ELSE /\ loops' = [loops EXCEPT ![t] = [LoopUnborn EXCEPT !.pc = "exited"]]
            /\ UNCHANGED cycles
    /\ UNCHANGED <<providerVars, fnVars, running, thread, slippage_data, mempool_data,
                   last_slippage_update, last_mempool_update, slippage_cycle,
                   mempool_cycle, requested, handlers, ctl>>

\* The arguments of the loop's fetch_all(): none
LoopRequest == NoPair

\* The loop's own except block: it invokes the error callback, and the thread
\* goes on to the sleep unless the callback raises
AfterLoopExcept == {"sleep", "crashed"}

\* The loop thread after a cycle in which fetch_all() raised
LoopAfterFailure(loop, next) ==
    IF next = "crashed"
    THEN [LoopUnborn EXCEPT !.pc = "crashed", !.cycle = loop.cycle, !.outcome = "failed",
                            !.errors = loop.errors + ErrorCallsPerFailedCycle]
    ELSE [loop EXCEPT !.pc = "sleep", !.outcome = "failed", !.wanted = NoPair,
                      !.errors = @ + ErrorCallsPerFailedCycle]

\* _refresh_loop: fetch_all() calls fetch_slippage_data() with no tokens
LoopFetchSlippage(t) ==
    /\ loops[t].pc = "slippage"
    /\ \E end \in FetchEnds(LoopRequest[1], LoopRequest[2]) :
         /\ FetchSlippageData(end, loops[t].cycle, LoopRequest[1], LoopRequest[2])
         /\ IF end = "returned"
            THEN loops' = [loops EXCEPT ![t].pc = "mempool"]
            ELSE \E next \in AfterLoopExcept :
                   loops' = [loops EXCEPT ![t] = LoopAfterFailure(loops[t], next)]
    /\ UNCHANGED <<providerVars, fnVars, running, thread, cycles, requested,
                   handlers, ctl>>

\* _refresh_loop: fetch_all() calls fetch_mempool_data() with no tokens
LoopFetchMempool(t) ==
    /\ loops[t].pc = "mempool"
    /\ \E end \in FetchEnds(LoopRequest[1], LoopRequest[2]) :
         /\ FetchMempoolData(end, loops[t].cycle, LoopRequest[1], LoopRequest[2])
         /\ IF end = "returned"
            THEN loops' = [loops EXCEPT ![t].pc = "sleep", ![t].outcome = "ok",
                                        ![t].wanted = NoPair]
            ELSE \E next \in AfterLoopExcept :
                   loops' = [loops EXCEPT ![t] = LoopAfterFailure(loops[t], next)]
    /\ UNCHANGED <<providerVars, fnVars, running, thread, cycles, requested,
                   handlers, ctl>>

\* _refresh_loop: time.sleep(self.refresh_interval) returns
LoopSleep(t) ==
    /\ loops[t].pc = "sleep"
    /\ loops' = [loops EXCEPT ![t].pc = "check", ![t].slept = @ + 1,
                              ![t].cycle = 0, ![t].outcome = "none"]
    /\ UNCHANGED <<providerVars, fnVars, running, thread, slippage_data, mempool_data,
                   last_slippage_update, last_mempool_update, slippage_cycle,
                   mempool_cycle, cycles, requested, handlers, ctl>>

\* get_all_data: a request arrives and the handler calls fetch_all(token_a, token_b)
BeginRequest(h) ==
    /\ handlers[h].pc \in {"idle", "done"}
    /\ cycles < MaxCycles
    /\ cycles' = cycles + 1
    /\ \E req \in Requests :
         handlers' = [handlers EXCEPT ![h] =
                        [pc |-> "slippage", token_a |-> req[1], token_b |-> req[2],
                         cycle |-> cycles + 1, seen_slippage |-> 0, seen_mempool |-> 0,
                         slippage |-> <<>>, mempool |-> <<>>, status |-> 0]]
    /\ UNCHANGED <<providerVars, fnVars, running, thread, slippage_data, mempool_data,
                   last_slippage_update, last_mempool_update, slippage_cycle,
                   mempool_cycle, requested, loops, ctl>>

\* get_all_data: fetch_all's fetch_slippage_data; an exception ends the request
\* with the 500 response
HandlerFetchSlippage(h) ==
    /\ handlers[h].pc = "slippage"
    /\ \E end \in FetchEnds(handlers[h].token_a, handlers[h].token_b) :
         /\ FetchSlippageData(end, handlers[h].cycle, handlers[h].token_a,
                              handlers[h].token_b)
         /\ handlers' = [handlers EXCEPT
                           ![h].pc = IF end = "returned" THEN "mempool" ELSE "done",
                           ![h].status = IF end = "returned" THEN 0 ELSE 500]
         /\ requested' = IF end # "provider_failed"
                            /\ CallsProvider(handlers[h].token_a, handlers[h].token_b)
                         THEN <<handlers[h].token_a, handlers[h].token_b>>
                         ELSE requested
    /\ UNCHANGED <<providerVars, fnVars, running, thread, cycles, loops, ctl>>

\* get_all_data: fetch_all's fetch_mempool_data
HandlerFetchMempool(h) ==
    /\ handlers[h].pc = "mempool"
    /\ \E end \in FetchEnds(handlers[h].token_a, handlers[h].token_b) :
         /\ FetchMempoolData(end, handlers[h].cycle, handlers[h].token_a,
                             handlers[h].token_b)
         /\ handlers' = [handlers EXCEPT
                           ![h].pc = IF end = "returned" THEN "read_slippage" ELSE "done",
                           ![h].status = IF end = "returned" THEN 0 ELSE 500]
    /\ UNCHANGED <<providerVars, fnVars, running, thread, cycles, requested, loops, ctl>>

\* get_all_data: transform_slippage_for_api(service.slippage_data, ...)
HandlerReadSlippage(h) ==
    /\ handlers[h].pc = "read_slippage"
    /\ handlers' = [handlers EXCEPT
                      ![h].pc = "read_mempool",
                      ![h].seen_slippage = slippage_cycle,
                      ![h].slippage = transform_slippage_for_api(
                                          slippage_data, handlers[h].token_a,
                                          handlers[h].token_b, TRUE)]
    /\ UNCHANGED <<providerVars, fnVars, running, thread, slippage_data, mempool_data,
                   last_slippage_update, last_mempool_update, slippage_cycle,
                   mempool_cycle, cycles, requested, loops, ctl>>

\* get_all_data: the loop over service.mempool_data[:15], and the response
HandlerReadMempool(h) ==
    /\ handlers[h].pc = "read_mempool"
    /\ handlers' = [handlers EXCEPT
                      ![h].pc = "done",
                      ![h].seen_mempool = mempool_cycle,
                      ![h].mempool = Take(mempool_data, MEMPOOL_DISPLAY_LIMIT),
                      ![h].status = 200]
    /\ UNCHANGED <<providerVars, fnVars, running, thread, slippage_data, mempool_data,
                   last_slippage_update, last_mempool_update, slippage_cycle,
                   mempool_cycle, cycles, requested, loops, ctl>>

FnIdle ==
    /\ fn_pc = "idle"
    /\ fn_args = <<>>
    /\ fn_data = <<>>
    /\ fn_ret = <<>>
    /\ fn_calls = <<>>

Init ==
    /\ ServiceInit
    /\ pools = ServicePools
    /\ pending = ServicePending
    /\ providerDown \in BOOLEAN
    /\ FnIdle

Next ==
    \/ Start
    \/ StartWhileRunning
    \/ StopBegin
    \/ StopJoin
    \/ \E t \in LoopIds : LoopCheck(t)
    \/ \E t \in LoopIds : LoopFetchSlippage(t)
    \/ \E t \in LoopIds : LoopFetchMempool(t)
    \/ \E t \in LoopIds : LoopSleep(t)
    \/ \E h \in HandlerIds : BeginRequest(h)
    \/ \E h \in HandlerIds : HandlerFetchSlippage(h)
    \/ \E h \in HandlerIds : HandlerFetchMempool(h)
    \/ \E h \in HandlerIds : HandlerReadSlippage(h)
    \/ \E h \in HandlerIds : HandlerReadMempool(h)

Spec == Init /\ [][Next]_vars

\* The scheduler runs every runnable thread: stop() goes on once its join can
\* return, and a loop thread that is not waiting on the clock takes its next
\* step. Nothing is assumed about when a sleep ends.
Fairness ==
    /\ WF_vars(StopJoin)
    /\ \A t \in LoopIds : WF_vars(LoopCheck(t))
    /\ \A t \in LoopIds : WF_vars(LoopFetchSlippage(t))
    /\ \A t \in LoopIds : WF_vars(LoopFetchMempool(t))

FairSpec == Spec /\ Fairness

----------------------------------------------------------------------------
(* The service's claims *)

\* C1: a reader that reads the published slippage data and the published
\* mempool data sees both from the same completed cycle.
C1_ReaderSeesOneCycle ==
    \A h \in HandlerIds :
        handlers[h].status = 200 =>
            handlers[h].seen_slippage = handlers[h].seen_mempool

\* The cycles that have failed and whose thread still holds their record
FailedCycles ==
    {handlers[h].cycle : h \in {x \in HandlerIds : handlers[x].status = 500}}
    \cup {loops[t].cycle : t \in {x \in LoopIds : loops[x].outcome = "failed"}}

\* C3: a refresh cycle that fails at any step leaves the published slippage
\* data, the published mempool data and both timestamps as they were: nothing
\* published is the work of a failed cycle.
C3_FailedCyclePublishesNothing ==
    \A c \in FailedCycles :
        /\ slippage_cycle # c
        /\ mempool_cycle # c
        /\ last_slippage_update # c
        /\ last_mempool_update # c

\* The loop threads that are alive
AliveLoops == {t \in LoopIds : IsAlive(t)}

\* C6: after any sequence of start() and stop() calls at most one background
\* loop is alive and cycling: while the service is running (every loop that
\* tests the flag goes on cycling) at most one loop thread is alive.
C6_AtMostOneLoopCycling == running => Cardinality(AliveLoops) <= 1

\* C7: a cycle that fails never ends the background loop.
C7_FailedCycleKeepsLoopAlive ==
    \A t \in LoopIds : loops[t].outcome = "failed" => IsAlive(t)

RECURSIVE SumErrors(_)
SumErrors(ts) ==
    IF ts = {} THEN 0
    ELSE LET t == CHOOSE x \in ts : TRUE IN loops[t].errors + SumErrors(ts \ {t})

\* C8: with a provider that fails every call and no on-demand fetch, once a
\* loop has slept through two refresh intervals the error callback has been
\* invoked at least twice and the published data is still the initial data.
C8_FailingProviderReportsErrors ==
    (/\ providerDown
     /\ \A h \in HandlerIds : handlers[h].pc = "idle"
     /\ \E t \in LoopIds : loops[t].slept >= 2)
    => /\ SumErrors(LoopIds) >= 2
       /\ slippage_data = <<>>
       /\ mempool_data = <<>>

\* C9: a scheduled cycle that begins after an on-demand fetch for a resolved
\* pair (A,B) has published fetches for (A,B), and what it publishes is the
\* provider's data for (A,B).
C9_ScheduledCycleFetchesRequestedPair ==
    \A t \in LoopIds :
        (loops[t].pc = "mempool" /\ loops[t].wanted # NoPair) =>
            /\ LoopRequest = loops[t].wanted
            /\ slippage_cycle = loops[t].cycle =>
                 slippage_data = fetch_dex_pool_slippages(
                                     pools, SLIPPAGE_QUERY_LIMIT,
                                     Resolve(loops[t].wanted[1]),
                                     Resolve(loops[t].wanted[2]))

\* C10: every call of stop() returns, whatever the background loop is doing:
\* once stop() has reached its join, it leaves it.
C10_StopReturns == (ctl.pc = "join") ~> (ctl.pc = "idle")

\* stop() has returned from a join that timed out: the loop thread it waited
\* for is still alive
C10_StopReturnedWhileLoopAlive ==
    /\ ctl.pc = "idle"
    /\ ~running
    /\ thread = 0
    /\ \E t \in LoopIds : IsAlive(t)

\* C11: a loop that was in its sleep when stop() was called leaves the sleep
\* because of the stop: it never leaves it by the refresh interval running out.
C11_StopInterruptsSleep ==
    [][\A t \in ctl.asleep :
          (~running /\ loops[t].pc = "sleep") => loops'[t].pc = "sleep"]_vars

\* C12: in a scheduled cycle the error callback fires according to the
\* outcome: a fetch of the cycle that succeeds never invokes it, and the step
\* in which the cycle fails invokes it exactly once.
C12_OneErrorCallPerFailedCycle ==
    [][\A t \in LoopIds :
          loops[t].pc \in {"slippage", "mempool"} =>
             /\ (loops'[t].outcome = "failed" => loops'[t].errors = loops[t].errors + 1)
             /\ (loops'[t].pc \in {"mempool", "sleep"} /\ loops'[t].outcome # "failed"
                    => loops'[t].errors = loops[t].errors)]_vars

----------------------------------------------------------------------------
(* One slippage request against any provider table: app.py's get_slippage and
   get_all_data fetch, then transform what was fetched *)

MaxPoolRows == 3       \* rows in the provider's slippage table

\* Every sequence over S of length at most n
SeqsUpTo(S, n) == UNION {[1..k -> S] : k \in 0..n}

Tiers == {5, 25}
Quotes == {[AtoBPrice |-> 2, BtoAPrice |-> 3, AtoBMax |-> 100, BtoAMax |-> 150],
           [AtoBPrice |-> 4, BtoAPrice |-> 5, AtoBMax |-> 200, BtoAMax |-> 250]}

\* The two orders in which the provider can index a USDC/WETH pool
PoolOrders == {[SymbolA |-> USDC, AddressA |-> USDC_ADDRESS,
                SymbolB |-> WETH, AddressB |-> WETH_ADDRESS],
               [SymbolA |-> WETH, AddressA |-> WETH_ADDRESS,
                SymbolB |-> USDC, AddressB |-> USDC_ADDRESS]}

RawSlippageRows ==
    {[Number |-> 100, Protocol |-> "uniswap_v3", Version |-> "3",
      SymbolA |-> o.SymbolA, AddressA |-> o.AddressA,
      SymbolB |-> o.SymbolB, AddressB |-> o.AddressB, Bps |-> bps,
      AtoBPrice |-> q.AtoBPrice, BtoAPrice |-> q.BtoAPrice,
      AtoBMax |-> q.AtoBMax, BtoAMax |-> q.BtoAMax] :
        o \in PoolOrders, bps \in Tiers, q \in Quotes}

\* The forms in which a caller can name each token: the symbol, the symbol in
\* lower case, an alias symbol, the address
UsdcForms == {USDC, lower(USDC), USDC_ADDRESS}
WethForms == {WETH, ETH, WETH_ADDRESS}

SlippageRequests ==
    {[token_a |-> a, token_b |-> b, include_tokens |-> FALSE] :
        a \in UsdcForms, b \in WethForms}
    \cup {[token_a |-> a, token_b |-> b, include_tokens |-> FALSE] :
        a \in WethForms, b \in UsdcForms}
    \cup {[token_a |-> USDC, token_b |-> None, include_tokens |-> FALSE]}

InitSlippage ==
    /\ ServiceInit
    /\ pools \in SeqsUpTo(RawSlippageRows, MaxPoolRows)
    /\ pending = <<>>
    /\ providerDown = FALSE
    /\ fn_pc = "call"
    /\ fn_args \in SlippageRequests
    /\ fn_data = <<>>
    /\ fn_ret = <<>>
    /\ fn_calls = <<>>

\* service.fetch_slippage_data(token_a=token_a, token_b=token_b)
ClientFetchSlippage ==
    /\ fn_pc = "call"
    /\ fn_data' = fetch_dex_pool_slippages(pools, SLIPPAGE_QUERY_LIMIT,
                                           Resolve(fn_args.token_a), Resolve(fn_args.token_b))
    /\ fn_pc' = "fetched"
    /\ UNCHANGED <<providerVars, serviceVars, fn_args, fn_ret, fn_calls>>

\* transform_slippage_for_api(service.slippage_data, token_a, token_b, include_tokens)
ApiTransformSlippage ==
    /\ fn_pc = "fetched"
    /\ \E include_tokens \in BOOLEAN :
         /\ fn_args' = [fn_args EXCEPT !.include_tokens = include_tokens]
         /\ fn_ret' = transform_slippage_for_api(fn_data, fn_args.token_a,
                                                 fn_args.token_b, include_tokens)
    /\ fn_pc' = "done"
    /\ UNCHANGED <<providerVars, serviceVars, fn_data, fn_calls>>

NextSlippage == ClientFetchSlippage \/ ApiTransformSlippage

SpecSlippage == InitSlippage /\ [][NextSlippage]_vars

\* The first fetched point with the tier
FirstWithTier(points, bps) ==
    points[CHOOSE i \in 1..Len(points) :
             /\ points[i].slippage_bps = bps
             /\ \A j \in 1..(i - 1) : points[j].slippage_bps # bps]

\* The request's addresses, as the client sends them to the provider
RequestA == normalize_token_address(Resolve(fn_args.token_a))
RequestB == normalize_token_address(Resolve(fn_args.token_b))

\* The request resolves, and its rows come from the swapped query alone
OnlySwappedRows ==
    /\ Resolve(fn_args.token_a) # None
    /\ Resolve(fn_args.token_b) # None
    /\ SlippageRowsAB(pools, SLIPPAGE_QUERY_LIMIT, RequestA, RequestB) = <<>>
    /\ SlippageRowsBA(pools, SLIPPAGE_QUERY_LIMIT, RequestA, RequestB) # <<>>

\* C2: for a request whose rows come only from the swapped provider query,
\* every item carries the row's BtoA price and BtoA MaxAmountIn, whatever form
\* of identifier the request used.
C2_SwappedRowsUseBtoA ==
    (fn_pc = "done" /\ OnlySwappedRows) =>
        \A i \in 1..Len(fn_ret) :
            /\ fn_ret[i].price = FirstWithTier(fn_data, fn_ret[i].bps).price_btoa
            /\ fn_ret[i].max_amount = FirstWithTier(fn_data, fn_ret[i].bps).max_amount_in_btoa

\* C5: the items are in strictly ascending order of tier, there is one for
\* each tier of the input, and each is built from the first input point with
\* its tier.
C5_AscendingFirstOfEachTier ==
    fn_pc = "done" =>
        /\ \A i, j \in 1..Len(fn_ret) : i < j => fn_ret[i].bps < fn_ret[j].bps
        /\ {fn_ret[i].bps : i \in 1..Len(fn_ret)}
             = {fn_data[k].slippage_bps : k \in 1..Len(fn_data)}
        /\ \A i \in 1..Len(fn_ret) :
             fn_ret[i] = SlippageItem(FirstWithTier(fn_data, fn_ret[i].bps),
                                      fn_args.token_a, fn_args.token_b,
                                      fn_args.include_tokens)

\* The input holds a tier twice with different quotes, the higher tier comes
\* first, and the transformation has run
C5_DuplicateTierOutOfOrder ==
    /\ fn_pc = "done"
    /\ Len(fn_ret) = 2
    /\ Len(fn_data) = 3
    /\ fn_data[1].slippage_bps > fn_data[2].slippage_bps
    /\ fn_data[3].slippage_bps = fn_data[1].slippage_bps
    /\ fn_data[3].price_btoa # fn_data[1].price_btoa

----------------------------------------------------------------------------
(* One mempool fetch against any table of pending trades *)

MaxPending == 3        \* pending trades in the provider's table

Hashes == {HashNone, "0xabc", "0xdef"}
BlockNumbers == {BadNumber, 100, 101}
TradeSides == {[Currency |-> WETH_ADDRESS, Side |-> USDC_ADDRESS],
               [Currency |-> USDC_ADDRESS, Side |-> WETH_ADDRESS]}

RawMempoolRows ==
    {[Hash |-> h, Number |-> n, Currency |-> o.Currency, Side |-> o.Side] :
        h \in Hashes, n \in BlockNumbers, o \in TradeSides}

\* The row limits a caller passes; 20 is the configured default
Limits == {2, MEMPOOL_QUERY_LIMIT}

MempoolRequests ==
    {[token_a |-> WETH, token_b |-> USDC, limit |-> l] : l \in Limits}

InitMempool ==
    /\ ServiceInit
    /\ pools = <<>>
    /\ pending \in SeqsUpTo(RawMempoolRows, MaxPending)
    /\ providerDown = FALSE
    /\ fn_pc = "call"
    /\ fn_args \in MempoolRequests
    /\ fn_data = <<>>
    /\ fn_ret = <<>>
    /\ fn_calls = <<>>

\* client.fetch_mempool_trades(limit, token_a_address=addr_a, token_b_address=addr_b);
\* fn_data keeps trades_ab + trades_ba as the provider returned them
ClientFetchMempool ==
    /\ fn_pc = "call"
    /\ fn_data' = MempoolBatches(pending, fn_args.limit,
                                 normalize_token_address(Resolve(fn_args.token_a)),
                                 normalize_token_address(Resolve(fn_args.token_b)))
    /\ fn_ret' = fetch_mempool_trades(pending, fn_args.limit,
                                      Resolve(fn_args.token_a), Resolve(fn_args.token_b))
    /\ fn_pc' = "done"
    /\ UNCHANGED <<providerVars, serviceVars, fn_args, fn_calls>>

NextMempool == ClientFetchMempool

SpecMempool == InitMempool /\ [][NextMempool]_vars

\* The first row of the concatenated batches with the hash
FirstWithHash(items, tx_hash) ==
    items[CHOOSE i \in 1..Len(items) :
            /\ items[i].Hash = tx_hash
            /\ \A j \in 1..(i - 1) : items[j].Hash # tx_hash]

\* C4: the list fetch_mempool_trades returns never holds two trades with the
\* same non-empty transaction hash, and a trade with a non-empty hash is built
\* from the first row with that hash in the (A,B) batch followed by the (B,A)
\* batch.
C4_UniqueHashFirstWins ==
    fn_pc = "done" =>
        /\ \A i, j \in 1..Len(fn_ret) :
             (i # j /\ HashTruthy(fn_ret[i].tx_hash)) => fn_ret[i].tx_hash # fn_ret[j].tx_hash
        /\ \A i \in 1..Len(fn_ret) :
             HashTruthy(fn_ret[i].tx_hash) =>
                fn_ret[i] = MempoolTradeData(FirstWithHash(fn_data, fn_ret[i].tx_hash))

\* Both directional batches held the same hash, with different block numbers,
\* and the fetch returned a trade with it
C4_SameHashInBothBatches ==
    /\ fn_pc = "done"
    /\ \E i, j \in 1..Len(fn_data) :
         /\ i < j
         /\ fn_data[i].Hash = fn_data[j].Hash
         /\ HashTruthy(fn_data[i].Hash)
         /\ fn_data[i].Currency # fn_data[j].Currency
         /\ fn_data[i].Number # fn_data[j].Number
         /\ \E k \in 1..Len(fn_ret) : fn_ret[k].tx_hash = fn_data[i].Hash

----------------------------------------------------------------------------
(* The client's fetches, one provider query at a time: the service's
   fetch_slippage_data and fetch_mempool_data down to _execute_query, and the
   handler's transformation of what the slippage fetch returned *)

\* The rows a slippage table of the provider can hold: well-formed ones in two
\* tiers, one whose block number does not parse, one whose tier is null
ClientSlippageShapes ==
    {[Number |-> 100, Bps |-> 5], [Number |-> 100, Bps |-> 25],
     [Number |-> BadNumber, Bps |-> 5], [Number |-> 100, Bps |-> NullTier]}

ClientSlippageRows ==
    {[Number |-> k.Number, Protocol |-> "uniswap_v3", Version |-> "3",
      SymbolA |-> o.SymbolA, AddressA |-> o.AddressA,
      SymbolB |-> o.SymbolB, AddressB |-> o.AddressB, Bps |-> k.Bps,
      AtoBPrice |-> 2, BtoAPrice |-> 3, AtoBMax |-> 100, BtoAMax |-> 150] :
        o \in PoolOrders, k \in ClientSlippageShapes}

\* A symbol that is not in TOKEN_ADDRESSES
UnknownSymbol == <<"P", "E", "P", "E">>

\* The pairs a caller passes: both tokens, one missing, none, one unknown
ClientPairs ==
    {<<WETH, USDC>>, <<USDC, WETH>>, <<USDC, None>>, <<None, None>>,
     <<UnknownSymbol, USDC>>}

\* addr_a, addr_b of fetch_slippage_data and fetch_mempool_data
AddrA == Resolve(fn_args.token_a)
AddrB == Resolve(fn_args.token_b)
\* `if not token_a_address or not token_b_address` testing the first token only
HasFirstToken == AddrA # None
HasPair == AddrA # None /\ AddrB # None

\* How _execute_query can end: it returns the response's data, or it raises
\* on a transport error or an "errors" field
QueryOutcomes == IF providerDown THEN {"failed"} ELSE {"answered", "failed"}

\* _execute_query with its two `raise` statements dropped: a failed query
\* would pass for an empty answer
QueryNeverRaises(outcome) == FALSE

\* _execute_query raises, and the exception leaves the client's fetch
QueryRaises(outcome) == outcome = "failed"

\* One sent query as the provider saw it, and the rows it answered with
QueryRecord(tokenA, tokenB, limit, outcome, rows) ==
    [tokenA |-> tokenA, tokenB |-> tokenB, limit |-> limit,
     ok |-> (outcome = "answered"), rows |-> rows]

\* fetch_dex_pool_slippages, `if slippages_ab:` with the test always false
AlwaysSwappedQuery(slippages_ab) == TRUE

\* fetch_dex_pool_slippages, `if slippages_ab:` false: the swapped query follows
NeedsSwappedQuery(slippages_ab) == slippages_ab = <<>>

\* sorted(slippage_data, key=lambda x: x.slippage_bps) raises TypeError when it
\* has to compare a None tier
SortRaises(points) ==
    Len(points) > 1 /\ \E i \in 1..Len(points) : points[i].slippage_bps = NullTier

\* The rows a pending-trade query can meet: hashes present or null, in either
\* direction of the pair, and a row whose block number does not parse
ClientMempoolRows ==
    {[Hash |-> h, Number |-> 100, Currency |-> o.Currency, Side |-> o.Side] :
        h \in Hashes, o \in TradeSides}
    \cup {[Hash |-> "0xabc", Number |-> BadNumber, Currency |-> o.Currency, Side |-> o.Side] :
        o \in TradeSides}

\* fetch_dex_pool_slippages / fetch_mempool_trades: `if not token_a_address or
\* not token_b_address: return []`
FetchWithoutPair ==
    /\ fn_pc = "call"
    /\ ~HasPair
    /\ fn_ret' = <<>>
    /\ fn_pc' = "returned"
    /\ UNCHANGED <<providerVars, serviceVars, fn_args, fn_data, fn_calls>>

\* fetch_dex_pool_slippages: the (A,B) query and what follows its answer
SlippageQueryAB ==
    /\ fn_pc = "call"
    /\ fn_args.kind = "slippage"
    /\ HasPair
    /\ \E outcome \in QueryOutcomes :
         LET ta == normalize_token_address(AddrA)
             tb == normalize_token_address(AddrB)
             slippages_ab == IF outcome = "answered"
                             THEN QuerySlippages(pools, fn_args.limit, ta, tb) ELSE <<>>
         IN  /\ fn_calls' = Append(fn_calls, QueryRecord(ta, tb, fn_args.limit, outcome, slippages_ab))
             /\ fn_data' = slippages_ab
             /\ IF QueryRaises(outcome)
                THEN fn_pc' = "raised" /\ UNCHANGED fn_ret
                ELSE IF NeedsSwappedQuery(slippages_ab)
                     THEN fn_pc' = "swapped" /\ UNCHANGED fn_ret
                     ELSE /\ fn_pc' = "returned"
                          /\ fn_ret' = transform_slippage_data(Take(slippages_ab, fn_args.limit))
    /\ UNCHANGED <<providerVars, serviceVars, fn_args>>

\* fetch_dex_pool_slippages: the (B,A) query and the return
SlippageQueryBA ==
    /\ fn_pc = "swapped"
    /\ \E outcome \in QueryOutcomes :
         LET ta == normalize_token_address(AddrA)
             tb == normalize_token_address(AddrB)
             slippages_ba == IF outcome = "answered"
                             THEN QuerySlippages(pools, fn_args.limit, tb, ta) ELSE <<>>
         IN  /\ fn_calls' = Append(fn_calls, QueryRecord(tb, ta, fn_args.limit, outcome, slippages_ba))
             /\ fn_data' = fn_data \o slippages_ba
             /\ IF QueryRaises(outcome)
                THEN fn_pc' = "raised" /\ UNCHANGED fn_ret
                ELSE /\ fn_pc' = "returned"
                     /\ fn_ret' = transform_slippage_data(Take(slippages_ba, fn_args.limit))
    /\ UNCHANGED <<providerVars, serviceVars, fn_args>>

\* fetch_mempool_trades: the (A,B) query
MempoolQueryAB ==
    /\ fn_pc = "call"
    /\ fn_args.kind = "mempool"
    /\ HasPair
    /\ \E outcome \in QueryOutcomes :
         LET ta == normalize_token_address(AddrA)
             tb == normalize_token_address(AddrB)
             per_limit == PerLimit(fn_args.limit)
             trades_ab == IF outcome = "answered"
                          THEN QueryMempool(pending, per_limit, ta, tb) ELSE <<>>
         IN  /\ fn_calls' = Append(fn_calls, QueryRecord(ta, tb, per_limit, outcome, trades_ab))
             /\ fn_data' = trades_ab
             /\ fn_pc' = IF QueryRaises(outcome) THEN "raised" ELSE "second"
    /\ UNCHANGED <<providerVars, serviceVars, fn_args, fn_ret>>

\* fetch_mempool_trades: the (B,A) query, the merge and the return
MempoolQueryBA ==
    /\ fn_pc = "second"
    /\ \E outcome \in QueryOutcomes :
         LET ta == normalize_token_address(AddrA)
             tb == normalize_token_address(AddrB)
             per_limit == PerLimit(fn_args.limit)
             trades_ba == IF outcome = "answered"
                          THEN QueryMempool(pending, per_limit, tb, ta) ELSE <<>>
             merged == MergeFrom(fn_data \o trades_ba, {})
         IN  /\ fn_calls' = Append(fn_calls, QueryRecord(tb, ta, per_limit, outcome, trades_ba))
             /\ fn_data' = fn_data \o trades_ba
             /\ IF QueryRaises(outcome)
                THEN fn_pc' = "raised" /\ UNCHANGED fn_ret
                ELSE /\ fn_pc' = "returned"
                     /\ fn_ret' = transform_mempool_trades(Take(merged, fn_args.limit))
    /\ UNCHANGED <<providerVars, serviceVars, fn_args>>

\* The time of the one fetch of this run, as the id of its cycle
ThisCycle == 1

\* fetch_slippage_data / fetch_mempool_data: the assignment of what the client
\* returned, and of the time; a fetch that raised assigns nothing
PublishFetched ==
    /\ fn_pc = "returned"
    /\ IF fn_args.kind = "slippage"
       THEN /\ slippage_data' = fn_ret
            /\ last_slippage_update' = ThisCycle
            /\ slippage_cycle' = ThisCycle
            /\ UNCHANGED <<mempool_data, last_mempool_update, mempool_cycle>>
       ELSE /\ mempool_data' = fn_ret
            /\ last_mempool_update' = ThisCycle
            /\ mempool_cycle' = ThisCycle
            /\ UNCHANGED <<slippage_data, last_slippage_update, slippage_cycle>>
    /\ fn_pc' = "published"
    /\ UNCHANGED <<providerVars, fn_args, fn_data, fn_ret, fn_calls,
                   running, thread, cycles, requested, loops, handlers, ctl>>

\* get_slippage / get_all_data: transform_slippage_for_api on what the fetch
\* published; an exception gives the 500 response
ReconcileSlippage ==
    /\ fn_pc = "published"
    /\ fn_args.kind = "slippage"
    /\ fn_pc' = IF SortRaises(slippage_data) THEN "failed" ELSE "done"
    /\ UNCHANGED <<providerVars, serviceVars, fn_args, fn_data, fn_ret, fn_calls>>

ClientSlippageRequests ==
    {[kind |-> "slippage", token_a |-> p[1], token_b |-> p[2],
      limit |-> SLIPPAGE_QUERY_LIMIT] : p \in ClientPairs}

InitClientSlippage ==
    /\ pools \in SeqsUpTo(ClientSlippageRows, MaxPoolRows)
    /\ pending = <<>>
    /\ fn_args \in ClientSlippageRequests

\* The mempool fetch under a small limit and under the configured one
ClientLimits == {1, MEMPOOL_QUERY_LIMIT}

ClientMempoolRequests ==
    {[kind |-> "mempool", token_a |-> WETH, token_b |-> USDC, limit |-> l] :
        l \in ClientLimits}
    \cup {[kind |-> "mempool", token_a |-> UnknownSymbol, token_b |-> USDC,
            limit |-> MEMPOOL_QUERY_LIMIT]}

InitClientMempool ==
    /\ pools = <<>>
    /\ pending \in SeqsUpTo(ClientMempoolRows, MaxPending)
    /\ fn_args \in ClientMempoolRequests

InitClient ==
    /\ ServiceInit
    /\ providerDown = FALSE
    /\ (InitClientSlippage \/ InitClientMempool)
    /\ fn_pc = "call"
    /\ fn_data = <<>>
    /\ fn_ret = <<>>
    /\ fn_calls = <<>>

NextClient ==
    \/ FetchWithoutPair
    \/ SlippageQueryAB
    \/ SlippageQueryBA
    \/ MempoolQueryAB
    \/ MempoolQueryBA
    \/ PublishFetched
    \/ ReconcileSlippage

SpecClient == InitClient /\ [][NextClient]_vars

\* The slippage fetch has returned to its caller
SlippageReturned ==
    fn_args.kind = "slippage" /\ HasPair /\ fn_pc \in {"returned", "published", "done", "failed"}

\* C13: with both addresses given, the first query is (A,B); the swapped query
\* (B,A) is sent if and only if the (A,B) query answered with zero rows, and
\* after it; a call that returns has made one query when (A,B) has rows and
\* two otherwise, and its rows come from one orientation only.
C13_SwappedQueryIffNoRows ==
    (fn_args.kind = "slippage" /\ HasPair) =>
        LET ta == normalize_token_address(AddrA)
            tb == normalize_token_address(AddrB)
            last == fn_calls[Len(fn_calls)]
        IN  /\ Len(fn_calls) <= 2
            /\ fn_pc # "call" => Len(fn_calls) >= 1
            /\ Len(fn_calls) >= 1 => fn_calls[1].tokenA = ta /\ fn_calls[1].tokenB = tb
            /\ Len(fn_calls) = 2 =>
                 /\ fn_calls[1].ok /\ fn_calls[1].rows = <<>>
                 /\ fn_calls[2].tokenA = tb /\ fn_calls[2].tokenB = ta
            /\ SlippageReturned =>
                 /\ last.ok
                 /\ (Len(fn_calls) = 2) <=> (QuerySlippages(pools, fn_args.limit, ta, tb) = <<>>)
                 /\ fn_ret = transform_slippage_data(last.rows)
                 /\ \A i \in 1..Len(last.rows) :
                      last.rows[i].AddressA = last.tokenA /\ last.rows[i].AddressB = last.tokenB

\* The (A,B) query found nothing, the swapped query was sent and its rows returned
C13_SwappedQueryAnswered ==
    /\ SlippageReturned
    /\ Len(fn_calls) = 2
    /\ fn_ret # <<>>

\* The table's rows for the requested pair, in either orientation
PairRows ==
    LET ta == normalize_token_address(AddrA)
        tb == normalize_token_address(AddrB)
    IN  SelectSeq(pools, LAMBDA r : \/ (r.AddressA = ta /\ r.AddressB = tb)
                                    \/ (r.AddressA = tb /\ r.AddressB = ta))

\* C14: when the provider holds a slippage row for the pair under either
\* orientation (here even one that parses, in a table without null tiers), a
\* request that is answered yields at least one item, whichever token the
\* caller names first.
C14_DataFoundEitherOrder ==
    (/\ fn_args.kind = "slippage" /\ HasPair /\ fn_pc = "done"
     /\ \E i \in 1..Len(PairRows) : PairRows[i].Number # BadNumber
     /\ \A i \in 1..Len(pools) : pools[i].Bps # NullTier)
    => Len(transform_slippage_for_api(fn_ret, fn_args.token_a, fn_args.token_b, FALSE)) >= 1

\* One of the two tokens is missing or does not resolve
PairIncomplete ==
    Resolve(fn_args.token_a) = None \/ Resolve(fn_args.token_b) = None

\* C15: when either token of the pair is missing or unresolved, the slippage
\* fetch and the mempool fetch return an empty list, raise no error and send
\* no provider query.
C15_NoPairNoQuery ==
    (PairIncomplete /\ fn_pc # "call") =>
        /\ fn_pc \in {"returned", "published", "done"}
        /\ fn_ret = <<>>
        /\ fn_calls = <<>>
        /\ fn_pc \in {"published", "done"} =>
             IF fn_args.kind = "slippage" THEN slippage_data = <<>> ELSE mempool_data = <<>>

\* A fetch for a symbol that does not resolve has returned and published
C15_UnknownSymbolFetched ==
    /\ fn_pc = "published"
    /\ fn_args.token_a = UnknownSymbol
    /\ Len(pools) + Len(pending) > 0

\* The mempool fetch has returned to its caller
MempoolReturned ==
    /\ fn_args.kind = "mempool"
    /\ ~PairIncomplete
    /\ fn_pc \in {"returned", "published"}

\* max(limit div 2, 5) for the limit of this call
RowCap ==
    IF fn_args.limit \div 2 > MinPerLimit THEN fn_args.limit \div 2 ELSE MinPerLimit

\* C16: with both addresses given, a mempool fetch queries (A,B) and then
\* (B,A) whatever the first answers, each with the row cap max(limit div 2, 5),
\* and returns at most `limit` trades.
C16_BothOrientationsCapped ==
    (fn_args.kind = "mempool" /\ ~PairIncomplete) =>
        LET ta == normalize_token_address(AddrA)
            tb == normalize_token_address(AddrB)
        IN  /\ Len(fn_calls) <= 2
            /\ \A i \in 1..Len(fn_calls) :
                 /\ fn_calls[i].limit = RowCap
                 /\ fn_calls[i].tokenA = (IF i = 1 THEN ta ELSE tb)
                 /\ fn_calls[i].tokenB = (IF i = 1 THEN tb ELSE ta)
                 /\ Len(fn_calls[i].rows) <= RowCap
            /\ (fn_pc = "second" /\ fn_calls[1].ok) => Len(fn_calls) = 1
            /\ MempoolReturned => (Len(fn_calls) = 2 /\ Len(fn_ret) <= fn_args.limit)

\* The (A,B) query answered with rows, the (B,A) query was sent all the same,
\* and the merged rows were cut to the limit
C16_SecondQueryAfterRows ==
    /\ MempoolReturned
    /\ fn_calls[1].rows # <<>>
    /\ fn_calls[2].rows # <<>>
    /\ Len(fn_data) > fn_args.limit
    /\ Len(fn_ret) = fn_args.limit

\* min(limit, len(AB) + len(BA))
CappedTotal ==
    IF Len(fn_data) < fn_args.limit THEN Len(fn_data) ELSE fn_args.limit

\* No transaction hash is in both batches
BatchesShareNoHash ==
    \A i \in 1..Len(fn_calls[1].rows) : \A j \in 1..Len(fn_calls[2].rows) :
        HashTruthy(fn_calls[1].rows[i].Hash) =>
            fn_calls[1].rows[i].Hash # fn_calls[2].rows[j].Hash

\* No transaction hash is twice in the rows of the two batches together
NoHashTwice ==
    \A i, j \in 1..Len(fn_data) :
        (i # j /\ HashTruthy(fn_data[i].Hash)) => fn_data[i].Hash # fn_data[j].Hash

\* Every row among the first `limit` of the two batches parses
FirstRowsParse ==
    \A i \in 1..CappedTotal : fn_data[i].Number # BadNumber

\* C17, as stated: when the two batches share no transaction hash, the result
\* has exactly min(limit, len(AB) + len(BA)) trades.
C17_DisjointBatchesCount ==
    (MempoolReturned /\ BatchesShareNoHash) => Len(fn_ret) = CappedTotal

\* C17, amended: when no transaction hash occurs twice in the two batches,
\* neither across them nor within one, and the first min(limit, len(AB) +
\* len(BA)) rows parse, the result has exactly that many trades.
C17_DistinctParsedRowsCount ==
    (MempoolReturned /\ NoHashTwice /\ FirstRowsParse) => Len(fn_ret) = CappedTotal

\* Both batches answered with rows, no hash is repeated, and the rows are more
\* than the limit
C17_DistinctRowsOverLimit ==
    /\ MempoolReturned
    /\ NoHashTwice
    /\ FirstRowsParse
    /\ fn_calls[1].rows # <<>>
    /\ fn_calls[2].rows # <<>>
    /\ \E i \in 1..Len(fn_data) : HashTruthy(fn_data[i].Hash)
    /\ Len(fn_data) > fn_args.limit

\* C18: if a provider query of a fetch fails, the fetch raises, once, at that
\* query; it returns no rows, also when the query for the other orientation
\* had succeeded, and nothing is published.
C18_FailedQueryAbortsFetch ==
    (\E i \in 1..Len(fn_calls) : ~fn_calls[i].ok) =>
        /\ fn_pc = "raised"
        /\ \A i \in 1..(Len(fn_calls) - 1) : fn_calls[i].ok
        /\ fn_ret = <<>>
        /\ slippage_data = <<>> /\ mempool_data = <<>>
        /\ last_slippage_update = 0 /\ last_mempool_update = 0

\* The (A,B) query of a mempool fetch answered with rows and the (B,A) query failed
C18_SecondQueryFailed ==
    /\ fn_pc = "raised"
    /\ Len(fn_calls) = 2
    /\ fn_calls[1].rows # <<>>
    /\ ~fn_calls[2].ok

\* A row all of whose required fields parse
WellFormed(r) == r.Number # BadNumber /\ r.Bps # NullTier

\* C19: a provider row whose block number or tier cannot be parsed is skipped
\* and every other row of the batch is in the result; a malformed row never
\* makes the fetch or the transformation of the batch fail.
C19_MalformedRowSkipped ==
    (fn_args.kind = "slippage" /\ ~PairIncomplete /\ fn_pc \in {"done", "failed"}) =>
        LET batch == fn_calls[Len(fn_calls)].rows
            parsed == SelectSeq(batch, WellFormed)
        IN  /\ fn_pc = "done"
            /\ fn_ret = [i \in 1..Len(parsed) |-> PoolSlippageData(parsed[i])]

----------------------------------------------------------------------------
(* token_to_address on the spellings of the known tokens *)

\* The spellings of a symbol in every letter case
CaseVariants(s) ==
    {v \in [1..Len(s) -> {s[i] : i \in 1..Len(s)} \cup {LowerChar(s[i]) : i \in 1..Len(s)}] :
        \A i \in 1..Len(s) : v[i] \in {s[i], LowerChar(s[i])}}

\* The digits of an address, without the 0x
Digits(address) == SubSeq(address, 3, Len(address))

\* Every second character in upper case, as in a checksummed address
MixedCase(s) == [i \in 1..Len(s) |-> IF i % 2 = 0 THEN UpperChar(s[i]) ELSE s[i]]

\* The spellings of an address's digits: lower case, upper case, mixed
DigitVariants(address) ==
    {Digits(address), upper(Digits(address)), MixedCase(Digits(address))}

\* What a caller can write for a token: its symbol in any case, its address
\* with the 0x prefix, and the 40 digits alone
Spellings(symbol) ==
    CaseVariants(symbol)
    \cup {<<"0", "x">> \o d : d \in DigitVariants(TOKEN_ADDRESSES[symbol])}
    \cup DigitVariants(TOKEN_ADDRESSES[symbol])

\* The digits with the one at position i replaced by a letter that is no hex digit
WithNonHex(digits, i) == [digits EXCEPT ![i] = "g"]

\* Digit strings that are no address: one digit short, one digit long, or with
\* a character that is no hex digit, first, in the middle or last
MalformedDigits(address) ==
    {SubSeq(Digits(address), 1, BareAddressLen - 1),
     Digits(address) \o <<"0">>,
     WithNonHex(Digits(address), 1),
     WithNonHex(Digits(address), BareAddressLen \div 2),
     WithNonHex(Digits(address), BareAddressLen)}

\* What token_to_address is to leave unresolved: no input, blank input, symbols
\* that are not in the table, and malformed hex with and without the prefix
MalformedTexts ==
    {None, <<" ">>, UnknownSymbol, <<"U","S","D">>, <<"W","E","T","H","9">>}
    \cup UNION {MalformedDigits(TOKEN_ADDRESSES[symbol]) : symbol \in DOMAIN TOKEN_ADDRESSES}
    \cup UNION {{<<"0", "x">> \o d : d \in MalformedDigits(TOKEN_ADDRESSES[symbol])} :
                  symbol \in DOMAIN TOKEN_ADDRESSES}

\* An input, and the token it spells (None: none)
ResolveInputs ==
    UNION {{[token |-> symbol, text |-> t] : t \in Spellings(symbol)} :
              symbol \in DOMAIN TOKEN_ADDRESSES}
    \cup {[token |-> None, text |-> t] : t \in MalformedTexts}

InitResolve ==
    /\ ServiceInit
    /\ pools = <<>>
    /\ pending = <<>>
    /\ providerDown = FALSE
    /\ fn_pc = "call"
    /\ fn_args \in ResolveInputs
    /\ fn_data = <<>>
    /\ fn_ret = <<>>
    /\ fn_calls = <<>>

\* token_to_address(text)
CallResolve ==
    /\ fn_pc = "call"
    /\ fn_ret' = token_to_address(fn_args.text)
    /\ fn_pc' = "done"
    /\ UNCHANGED <<providerVars, serviceVars, fn_args, fn_data, fn_calls>>

NextResolve == CallResolve

SpecResolve == InitResolve /\ [][NextResolve]_vars

\* A lowercase address with the 0x prefix
Canonical(address) ==
    /\ Len(address) = PrefixedAddressLen
    /\ SubSeq(address, 1, 2) = <<"0", "x">>
    /\ \A i \in 3..Len(address) :
         address[i] \in {"0","1","2","3","4","5","6","7","8","9","a","b","c","d","e","f"}

\* C20: a known symbol in any letter case, the token's address with the 0x
\* prefix and its digits in any letter case, and the same 40 digits without
\* the prefix all resolve to one canonical lowercase 0x-prefixed address.
C20_SpellingsResolveAlike ==
    (fn_pc = "done" /\ fn_args.token # None) =>
        /\ Canonical(fn_ret)
        /\ fn_ret = token_to_address(fn_args.token)
        /\ fn_ret = <<"0", "x">> \o lower(Digits(TOKEN_ADDRESSES[fn_args.token]))

\* An address written without prefix and with upper-case digits has been resolved
C20_BareUpperCaseResolved ==
    /\ fn_pc = "done"
    /\ Len(fn_args.text) = BareAddressLen
    /\ fn_args.text # lower(fn_args.text)

\* C21: token_to_address returns None for empty input, for malformed hex
\* (wrong length or a character that is no hex digit, with or without the 0x
\* prefix) and for a symbol that is not in the table; an address it returns
\* is 0x followed by exactly 40 lowercase hex characters.
C21_MalformedUnresolved ==
    fn_pc = "done" =>
        /\ fn_args.token = None => fn_ret = None
        /\ fn_ret # None => Canonical(fn_ret)

----------------------------------------------------------------------------
(* app.py: the three API handlers serving one request, with the service's
   getters they call *)

MaxApiRows == 2        \* rows in each provider table an API request meets

\* DataService.get_latest_block's None
NoBlock == -3

RECURSIVE MaxBlock(_)
MaxBlock(points) ==
    IF Len(points) = 1 THEN Head(points).block_number
    ELSE LET rest == MaxBlock(Tail(points))
         IN  IF Head(points).block_number >= rest THEN Head(points).block_number ELSE rest

\* get_latest_block taking the first point's block in place of the maximum
LatestBlockOfFirst(points) ==
    IF points = <<>> THEN NoBlock ELSE Head(points).block_number

\* DataService.get_latest_block
get_latest_block(points) == IF points = <<>> THEN NoBlock ELSE MaxBlock(points)

\* sum(t.trade_amount_usd for t in self.mempool_data)
RECURSIVE SumUsd(_)
SumUsd(trades) ==
    IF trades = <<>> THEN 0 ELSE Head(trades).trade_amount_usd + SumUsd(Tail(trades))

\* get_mempool_summary counting the trades in place of their distinct protocols
SummaryCountingTrades(trades) ==
    [count |-> Len(trades), total_value_usd |-> SumUsd(trades),
     unique_protocols |-> Len(trades)]

\* DataService.get_mempool_summary
get_mempool_summary(trades) ==
    IF trades = <<>>
    THEN [count |-> 0, total_value_usd |-> 0, unique_protocols |-> 0]
    ELSE [count |-> Len(trades),
          total_value_usd |-> SumUsd(trades),
          unique_protocols |-> Cardinality({trades[i].protocol : i \in 1..Len(trades)})]

\* The dictionaries the handlers build from service.mempool_data[:15]
MempoolItem(t) ==
    [tx_hash |-> t.tx_hash, protocol |-> t.protocol, trade_token |-> t.trade_token,
     trade_amount_usd |-> t.trade_amount_usd, side_token |-> t.side_token]

MempoolList(trades) ==
    LET shown == Take(trades, MEMPOOL_DISPLAY_LIMIT)
    IN  [i \in 1..Len(shown) |-> MempoolItem(shown[i])]

ApiOps == {"GetCombined", "GetSlippage", "GetMempool"}
FetchesSlippage(op) == op \in {"GetCombined", "GetSlippage"}
FetchesMempool(op) == op \in {"GetCombined", "GetMempool"}

\* The except branch answering with the data fields of the success branch
ErrorResponseWithData(op, message) ==
    [status |-> 500,
     body |-> [success |-> FALSE, error |-> message, data |-> <<>>]]

\* The except branch of each handler: jsonify({'success': False, 'error': str(e)}), 500
ErrorResponse(op, message) ==
    [status |-> 500, body |-> [success |-> FALSE, error |-> message]]

\* The return statement of each handler's try block
SuccessResponse(op, token_a, token_b) ==
    [status |-> 200,
     body |->
       CASE op = "GetCombined" ->
              [success |-> TRUE,
               slippage |-> transform_slippage_for_api(slippage_data, token_a, token_b, TRUE),
               mempool |-> MempoolList(mempool_data),
               summary |-> get_mempool_summary(mempool_data),
               latest_block |-> get_latest_block(slippage_data),
               last_updated |-> last_mempool_update]
         [] op = "GetSlippage" ->
              [success |-> TRUE,
               data |-> transform_slippage_for_api(slippage_data, token_a, token_b, FALSE),
               latest_block |-> get_latest_block(slippage_data)]
         [] op = "GetMempool" ->
              [success |-> TRUE,
               data |-> MempoolList(mempool_data),
               summary |-> get_mempool_summary(mempool_data)]]

\* The slippage rows an API request can meet: one pool, two blocks, a tier or null
ApiSlippageRows ==
    {[Number |-> n, Protocol |-> "uniswap_v3", Version |-> "3",
      SymbolA |-> USDC, AddressA |-> USDC_ADDRESS,
      SymbolB |-> WETH, AddressB |-> WETH_ADDRESS, Bps |-> bps,
      AtoBPrice |-> 2, BtoAPrice |-> 3, AtoBMax |-> 100, BtoAMax |-> 150] :
        n \in {100, 101}, bps \in {5, NullTier}}

\* The pending trades an API request can meet, in either direction of the pair
\* and at two block times: one fully described and reported as failed, one with
\* no hash, no protocol name, no USD amount and a null Success
ApiTradeShapes ==
    {[Hash |-> "0xabc", ProtocolName |-> "uniswap_v3", AmountInUSD |-> 7, Success |-> "false"],
     [Hash |-> HashNone, ProtocolName |-> HashNone, AmountInUSD |-> NullTier, Success |-> "null"]}

ApiMempoolRows ==
    {[Hash |-> k.Hash, Number |-> 100, Time |-> t, ProtocolName |-> k.ProtocolName,
      AmountInUSD |-> k.AmountInUSD, Success |-> k.Success,
      Currency |-> o.Currency, Side |-> o.Side] :
        k \in ApiTradeShapes, t \in {1, 2}, o \in TradeSides}

\* orderBy: {descending: Block_Time}: the provider lists the newest trade first
NewestFirst(rows) == \A i \in 1..Len(rows) - 1 : rows[i].Time >= rows[i + 1].Time

ApiPendingTables == {rows \in SeqsUpTo(ApiMempoolRows, MaxApiRows) : NewestFirst(rows)}

\* The pending table of the combined request's runs: two trades of two
\* protocols, in a block later than any slippage row's
ApiCombinedPending ==
    <<[Hash |-> "0xabc", Number |-> 102, Time |-> 2, ProtocolName |-> "uniswap_v3",
       AmountInUSD |-> 7, Success |-> "true",
       Currency |-> WETH_ADDRESS, Side |-> USDC_ADDRESS],
      [Hash |-> "0xdef", Number |-> 102, Time |-> 1, ProtocolName |-> "uniswap_v2",
       AmountInUSD |-> 5, Success |-> "true",
       Currency |-> USDC_ADDRESS, Side |-> WETH_ADDRESS]>>

\* request.args.get('token_a', '').strip() or None, and the same for token_b
ApiPairs == {<<WETH, USDC>>, <<USDC, None>>, <<None, None>>}

ApiRequests == {[op |-> op, token_a |-> pair[1], token_b |-> pair[2]] :
                    op \in ApiOps, pair \in ApiPairs}

InitApi ==
    /\ ServiceInit
    /\ providerDown \in BOOLEAN
    /\ fn_args \in ApiRequests
    /\ pools \in SeqsUpTo(ApiSlippageRows, MaxApiRows)
    /\ pending \in ApiPendingTables \cup {ApiCombinedPending}
    /\ FetchesSlippage(fn_args.op) \/ pools = <<>>
    /\ FetchesMempool(fn_args.op) \/ pending = <<>>
    /\ fn_args.op = "GetCombined" => pending \in {<<>>, ApiCombinedPending}
    /\ fn_pc = "call"
    /\ fn_data = <<>>
    /\ fn_ret = <<>>
    /\ fn_calls = <<>>

ApiServiceIdle == UNCHANGED <<providerVars, fn_args, fn_data, running, thread, cycles,
                              requested, loops, handlers, ctl>>

\* service.fetch_slippage_data(...), directly or as the first half of fetch_all
ApiFetchSlippage ==
    /\ fn_pc = "call"
    /\ FetchesSlippage(fn_args.op)
    /\ \E end \in FetchEnds(fn_args.token_a, fn_args.token_b) :
         /\ FetchSlippageData(end, ThisCycle, fn_args.token_a, fn_args.token_b)
         /\ fn_calls' = Append(fn_calls, end)
         /\ fn_pc' = IF end # "returned" THEN "except"
                     ELSE IF fn_args.op = "GetCombined" THEN "mempool" ELSE "respond"
    /\ UNCHANGED fn_ret
    /\ ApiServiceIdle

\* service.fetch_mempool_data(...), directly or as the second half of fetch_all
ApiFetchMempool ==
    /\ \/ fn_pc = "call" /\ fn_args.op = "GetMempool"
       \/ fn_pc = "mempool"
    /\ \E end \in FetchEnds(fn_args.token_a, fn_args.token_b) :
         /\ FetchMempoolData(end, ThisCycle, fn_args.token_a, fn_args.token_b)
         /\ fn_calls' = Append(fn_calls, end)
         /\ fn_pc' = IF end # "returned" THEN "except" ELSE "respond"
    /\ UNCHANGED fn_ret
    /\ ApiServiceIdle

\* The rest of the try block: the transformation, the getters and jsonify
ApiRespond ==
    /\ fn_pc = "respond"
    /\ IF FetchesSlippage(fn_args.op) /\ SortRaises(slippage_data)
       THEN /\ fn_calls' = Append(fn_calls, "transform_raised")
            /\ fn_pc' = "except"
            /\ UNCHANGED fn_ret
       ELSE /\ fn_ret' = SuccessResponse(fn_args.op, fn_args.token_a, fn_args.token_b)
            /\ fn_pc' = "done"
            /\ UNCHANGED fn_calls
    /\ UNCHANGED <<slippage_data, mempool_data, last_slippage_update, last_mempool_update,
                   slippage_cycle, mempool_cycle>>
    /\ ApiServiceIdle

\* The except block
ApiExcept ==
    /\ fn_pc = "except"
    /\ fn_ret' = ErrorResponse(fn_args.op, fn_calls[Len(fn_calls)])
    /\ fn_pc' = "done"
    /\ UNCHANGED <<fn_calls, slippage_data, mempool_data, last_slippage_update,
                   last_mempool_update, slippage_cycle, mempool_cycle>>
    /\ ApiServiceIdle

NextApi == ApiFetchSlippage \/ ApiFetchMempool \/ ApiRespond \/ ApiExcept

SpecApi == InitApi /\ [][NextApi]_vars

\* The fields of each operation's data object
SuccessFields(op) ==
    CASE op = "GetCombined" -> {"success", "slippage", "mempool", "summary",
                                "latest_block", "last_updated"}
      [] op = "GetSlippage" -> {"success", "data", "latest_block"}
      [] op = "GetMempool" -> {"success", "data", "summary"}

Raised == \E i \in 1..Len(fn_calls) : fn_calls[i] # "returned"

\* C22: every answered API request has one of two shapes: status 200 with
\* success true and all the fields of its operation's data object, when no
\* fetch and no transformation raised; status 500 with success false and an
\* error message and no other field, when one raised.
C22_TwoResponseShapes ==
    fn_pc = "done" =>
        IF Raised
        THEN /\ fn_ret.status = 500
             /\ fn_ret.body.success = FALSE
             /\ DOMAIN fn_ret.body = {"success", "error"}
        ELSE /\ fn_ret.status = 200
             /\ fn_ret.body.success = TRUE
             /\ DOMAIN fn_ret.body = SuccessFields(fn_args.op)

\* A combined request whose second fetch raised has been answered
C22_CombinedFailedAtMempool ==
    /\ fn_pc = "done"
    /\ fn_args.op = "GetCombined"
    /\ fn_calls = <<"returned", "provider_failed">>
    /\ slippage_data # <<>>

\* The mempool fetch of the request has published its list
MempoolPublished ==
    /\ FetchesMempool(fn_args.op)
    /\ fn_pc \in {"respond", "done"}
    /\ fn_calls # <<>>
    /\ fn_calls[Len(fn_calls)] = "returned"

\* C23: the published mempool list is ordered by non-increasing block time,
\* each of the provider's two batches being in descending block-time order.
C23_MempoolNewestFirst ==
    MempoolPublished =>
        \A i \in 1..Len(mempool_data) - 1 :
            mempool_data[i].block_time >= mempool_data[i + 1].block_time

----------------------------------------------------------------------------
(* The service's claims that concern concurrent callers, checked under Spec *)

\* What a cycle for the pair fetches from the provider's tables
OwnSlippage(token_a, token_b) ==
    fetch_dex_pool_slippages(pools, SLIPPAGE_QUERY_LIMIT, Resolve(token_a), Resolve(token_b))
OwnMempool(token_a, token_b) ==
    fetch_mempool_trades(pending, MEMPOOL_QUERY_LIMIT, Resolve(token_a), Resolve(token_b))

\* C24: whatever runs concurrently, the data in the response to an on-demand
\* request for a pair is the data that request's own cycle fetched for the
\* pair, and a request with a missing token is answered with empty data.
C24_ResponseFromOwnCycle ==
    \A h \in HandlerIds :
        handlers[h].status = 200 =>
            /\ handlers[h].slippage =
                   transform_slippage_for_api(
                       OwnSlippage(handlers[h].token_a, handlers[h].token_b),
                       handlers[h].token_a, handlers[h].token_b, TRUE)
            /\ handlers[h].mempool =
                   Take(OwnMempool(handlers[h].token_a, handlers[h].token_b),
                        MEMPOOL_DISPLAY_LIMIT)
            /\ (handlers[h].token_a = None \/ handlers[h].token_b = None) =>
                   handlers[h].slippage = <<>> /\ handlers[h].mempool = <<>>

----------------------------------------------------------------------------
(* fetch_mempool_trades and rows without a hash, checked under SpecMempool *)

\* The rows before row i of the concatenated batches that repeat an earlier
\* non-empty hash: the rows deduplication removes
RepeatsBefore(i) ==
    {j \in 1..(i - 1) : /\ HashTruthy(fn_data[j].Hash)
                        /\ \E k \in 1..(j - 1) : fn_data[k].Hash = fn_data[j].Hash}

\* The rows without a hash that lie within the first `limit` merged rows
HashlessWithinLimit ==
    {i \in 1..Len(fn_data) : /\ ~HashTruthy(fn_data[i].Hash)
                             /\ i - Cardinality(RepeatsBefore(i)) <= fn_args.limit}

\* The returned trades without a hash
HashlessReturned == {k \in 1..Len(fn_ret) : ~HashTruthy(fn_ret[k].tx_hash)}

\* C25, as stated: every row with a missing or empty hash that lies within the
\* first `limit` merged rows appears in the result of fetch_mempool_trades.
C25_HashlessRowsAllReturned ==
    fn_pc = "done" =>
        Cardinality(HashlessReturned) = Cardinality(HashlessWithinLimit)

\* C25, amended: deduplication removes no row with a missing or empty hash;
\* every such row that lies within the first `limit` merged rows and that
\* _transform_mempool_trades can parse appears in the result.
C25_HashlessParsedRowsReturned ==
    fn_pc = "done" =>
        Cardinality(HashlessReturned) =
            Cardinality({i \in HashlessWithinLimit : ~RowRaises(fn_data[i])})

\* Two equal rows without a hash lay within the limit and were returned as two
\* trades
C25_TwoHashlessRowsReturned ==
    /\ fn_pc = "done"
    /\ \E i, j \in HashlessWithinLimit :
         /\ i < j
         /\ fn_data[i].Hash = fn_data[j].Hash
         /\ fn_data[i].Number = fn_data[j].Number
         /\ ~RowRaises(fn_data[i])
    /\ Cardinality(HashlessReturned) = 2

----------------------------------------------------------------------------
(* The two kinds of fetch and their timestamps, checked under SpecApi *)

\* The step about to be taken is a call of fetch_slippage_data / fetch_mempool_data
AtSlippageFetch == fn_pc = "call" /\ FetchesSlippage(fn_args.op)
AtMempoolFetch == (fn_pc = "call" /\ fn_args.op = "GetMempool") \/ fn_pc = "mempool"

\* How the request's fetch of each kind ended, if it has run
SlippageEnds ==
    IF FetchesSlippage(fn_args.op) /\ Len(fn_calls) >= 1 THEN {fn_calls[1]} ELSE {}
MempoolEnds ==
    IF fn_args.op = "GetMempool" /\ Len(fn_calls) >= 1 THEN {fn_calls[1]}
    ELSE IF fn_args.op = "GetCombined" /\ Len(fn_calls) >= 2 THEN {fn_calls[2]}
    ELSE {}

\* A fetch of one kind leaves the other kind's data and timestamp alone
KindsIndependent ==
    /\ AtSlippageFetch => UNCHANGED <<mempool_data, last_mempool_update>>
    /\ AtMempoolFetch => UNCHANGED <<slippage_data, last_slippage_update>>

\* The ends after which a fetch has assigned its data: it returned, or its
\* update callback raised after the assignment
AssignedEnds == {"returned", "callback_raised"}

----------------------------------------------------------------------------
(* The loop after stop(), checked with a sleep that returns *)

\* time.sleep(self.refresh_interval) returns once the interval has run out
SleepFairness == \A t \in LoopIds : WF_vars(LoopSleep(t))

FairSleepSpec == Spec /\ Fairness /\ SleepFairness

\* C27: after stop(), and as long as start() is not called again, no loop
\* thread begins a new refresh cycle, the only loop threads still inside a
\* cycle (and so still able to publish) are those whose cycle was in flight
\* when stop() was called, and every loop thread eventually exits.
C27_StoppedLoopWindsDown ==
    /\ [][\A t \in LoopIds :
            ~running =>
              /\ loops[t].pc \notin CyclePcs => loops'[t].pc \notin CyclePcs
              /\ (loops[t].pc \in CyclePcs /\ loops'[t] # loops[t]) => t \in ctl.inflight]_vars
    /\ [](~running => <>(running \/ \A t \in LoopIds : ~IsAlive(t)))

\* stop() was called while a loop thread was inside a cycle; the thread has
\* since published that cycle's mempool data and gone to sleep
C27_InFlightCyclePublished ==
    /\ ~running
    /\ \E t \in ctl.inflight :
         /\ loops[t].pc = "sleep"
         /\ loops[t].outcome = "ok"
         /\ mempool_cycle = loops[t].cycle

----------------------------------------------------------------------------
(* The service's getters as the handlers' responses show them, checked under
   SpecApi *)

\* The request was answered from its try block
Answered == fn_pc = "done" /\ fn_ret.status = 200

\* The USD amounts of the trades at the positions in S, added up
RECURSIVE UsdOver(_, _)
UsdOver(trades, S) ==
    IF S = {} THEN 0
    ELSE LET i == CHOOSE i \in S : TRUE
         IN  trades[i].trade_amount_usd + UsdOver(trades, S \ {i})

\* C28: the summary get_mempool_summary gives describes the published mempool
\* list: count is its length, total_value_usd the sum of its trades' USD
\* amounts, unique_protocols the number of distinct protocol names among them,
\* and all three are 0 when the list is empty.
C28_SummaryDescribesPublishedList ==
    (Answered /\ FetchesMempool(fn_args.op)) =>
        LET summary == fn_ret.body.summary IN
        /\ summary.count = Len(mempool_data)
        /\ summary.total_value_usd = UsdOver(mempool_data, 1..Len(mempool_data))
        /\ \E names \in SUBSET {"Unknown", "uniswap_v2", "uniswap_v3"} :
             /\ \A i \in 1..Len(mempool_data) : mempool_data[i].protocol \in names
             /\ \A n \in names : \E i \in 1..Len(mempool_data) : mempool_data[i].protocol = n
             /\ summary.unique_protocols = Cardinality(names)
        /\ mempool_data = <<>> =>
             summary = [count |-> 0, total_value_usd |-> 0, unique_protocols |-> 0]

\* Two trades of two protocols were published and summarised
C28_TwoProtocolsSummarised ==
    /\ Answered
    /\ FetchesMempool(fn_args.op)
    /\ Len(mempool_data) = 2
    /\ fn_ret.body.summary = [count |-> 2, total_value_usd |-> 12, unique_protocols |-> 2]

\* C29: get_latest_block gives the maximum block number over the published
\* slippage points, and None exactly when no slippage point is published;
\* the published mempool trades never contribute.
C29_LatestBlockIsSlippageMaximum ==
    (Answered /\ FetchesSlippage(fn_args.op)) =>
        LET latest == fn_ret.body.latest_block IN
        /\ (latest = NoBlock) <=> (slippage_data = <<>>)
        /\ slippage_data # <<>> =>
             /\ \A i \in 1..Len(slippage_data) : slippage_data[i].block_number <= latest
             /\ \E i \in 1..Len(slippage_data) : slippage_data[i].block_number = latest

\* Slippage points of two blocks, the later one second, were published with
\* mempool trades of a block later than both, and the latest block is the
\* later slippage block
C29_LaterMempoolBlockIgnored ==
    /\ Answered
    /\ fn_args.op = "GetCombined"
    /\ Len(slippage_data) = 2
    /\ slippage_data[1].block_number < slippage_data[2].block_number
    /\ \E i \in 1..Len(mempool_data) :
         mempool_data[i].block_number > slippage_data[2].block_number
    /\ fn_ret.body.latest_block = slippage_data[2].block_number

\* C30: every trade _transform_mempool_trades produces has success true,
\* whatever the row's Trade.Success reports: true, null or an explicit false.
C30_EveryTradeSucceeded ==
    MempoolPublished =>
        \A i \in 1..Len(mempool_data) : mempool_data[i].success = "true"

\* Every pending trade the provider held reported Success false, and trades
\* built from them were published
C30_FailedTradePublished ==
    /\ MempoolPublished
    /\ mempool_data # <<>>
    /\ \A i \in 1..Len(pending) : pending[i].Success = "false"
====
